---- MODULE Spec2Model ----
(***************************************************************************)
(* Model of withdatabase.py: a Streamlit script that keeps a users table   *)
(* in SQLite (register / authenticate), a per-session "authenticated"      *)
(* flag that gates the charting page, and the rolling-window indicators    *)
(* computed on the fetched close prices.                                   *)
(*                                                                         *)
(* Spec     the credential store and the sessions' script runs             *)
(* SpecInd  the indicator computations (moving average, RSI) as pure       *)
(*          functions over bounded close series                            *)
(*                                                                         *)
(* Abstractions: floats are exact rationals plus NaN and +Inf; a writer    *)
(* that finds the database locked waits for the lock (the driver's busy    *)
(* timeout is not modelled); yfinance and the chart widgets are black      *)
(* boxes whose outcome (rows / empty / exception) is chosen freely.        *)
(*                                                                         *)
(* Lines 99 and 141 of withdatabase.py ("with tab1:", "with tab3:") are    *)
(* indented one column less than "with tab2:", which Python rejects as an  *)
(* IndentationError.  The model reads the four "with tab" blocks as        *)
(* siblings inside the else branch of "if data.empty", as the code means.  *)
(***************************************************************************)
EXTENDS Integers, Sequences, FiniteSets, TLC

VARIABLES
    tableExists,    \* users.db holds the users table
    rows,           \* committed rows of users: [id, username, password]
    lock,           \* session whose connection holds the write lock, 0 if none
    session_state,  \* per session: st.session_state ("authenticated" key)
    pc,             \* per session: position of the current script run
    run,            \* per session: what the current/last script run did
    close,          \* data['Close'] of the fetched table
    ma_days,        \* slider "Periode Rata-Rata Bergerak"
    rsi_period,     \* slider "RSI Period"
    data,           \* derived columns: MA, RSI
    done            \* which indicator columns have been computed

vars == <<tableExists, rows, lock, session_state, pc, run,
          close, ma_days, rsi_period, data, done>>

storeVars == <<tableExists, rows, lock, session_state, pc, run>>
indVars == <<close, ma_days, rsi_period, data, done>>

----------------------------------------------------------------------------
\* Bounds of the model

NumSessions == 2    \* concurrent browser sessions
MaxDeltas == 5      \* a close series has at most MaxDeltas + 1 rows
MaxMa == 6          \* largest moving-average window tried (the slider allows 200)
MaxRsi == 3         \* largest RSI period tried (the slider allows 20)

Sessions == 1..NumSessions
Usernames == {"a", "A"}
Passwords == {"x", "X"}
\* two calendar dates give the three orders start < end, start = end, start > end
Dates == {0, 1}
\* day-to-day price changes of the close series tried
Steps == {-1, 0, 1, 2}

\* the three st.plotly_chart calls of main_app (tab1, tab2, tab3)
NumCharts == 3
\* lower ends of the sliders "Periode Rata-Rata Bergerak" and "RSI Period"
MaMin == 5
RsiMin == 2

----------------------------------------------------------------------------
\* The users table

HasUser(tbl, username) == \E r \in tbl : r.username = username

NextId(tbl) ==
    IF tbl = {} THEN 1
    ELSE (CHOOSE m \in {r.id : r \in tbl} : \A r \in tbl : r.id <= m) + 1

\* lower-casing of the strings tried
Lower(str) == IF str = "A" THEN "a" ELSE IF str = "X" THEN "x" ELSE str

\* the SELECT under a case-insensitive collation
SelectUserNoCase(tbl, username, password) ==
    {r \in tbl : Lower(r.username) = Lower(username)
                    /\ Lower(r.password) = Lower(password)}

\* SELECT * FROM users WHERE username = ? AND password = ?
SelectUser(tbl, username, password) ==
    {r \in tbl : r.username = username /\ r.password = password}

\* authenticate_user: user = cursor.fetchone(); return user is not None
authenticate_user(tbl, username, password) ==
    SelectUser(tbl, username, password) # {}

\* INSERT without the UNIQUE constraint: never an IntegrityError
NoUniqueConstraint(tbl, username) == FALSE

\* the UNIQUE constraint on username, checked by the INSERT statement
UniqueViolation(tbl, username) == HasUser(tbl, username)

\* writers that do not exclude each other
NoWriteLock(s) == TRUE

\* a connection may start a write transaction only when no other holds the lock
CanWrite(s) == lock = 0

\* DROP TABLE followed by CREATE TABLE: the table is recreated empty
CreateTableFresh(exists, tbl) == {}

\* CREATE TABLE IF NOT EXISTS users (...): the rows of users afterwards
CreateTableIfNotExists(exists, tbl) == IF exists THEN tbl ELSE {}

----------------------------------------------------------------------------
\* A script run

NoRun == [entry |-> FALSE, views |-> {}, btn |-> FALSE,
          username |-> "", password |-> "", ret |-> "none",
          start |-> 0, end |-> 0, fetch |-> "none", fail |-> 0,
          fetchCalled |-> FALSE, charts |-> 0, msgs |-> {}, uncaught |-> FALSE]

Authenticated(s) == session_state[s].present /\ session_state[s].authenticated

\* if "authenticated" not in st.session_state: st.session_state["authenticated"] = False
WithDefault(ss) ==
    IF ss.present THEN ss ELSE [present |-> TRUE, authenticated |-> FALSE]

SetAuthenticated(ss, b) == [present |-> TRUE, authenticated |-> b]

\* a gate that lets every session through
GateAlwaysOpen(s) == TRUE

\* main program: if not st.session_state["authenticated"] ... else ...
GateOpen(s) == WithDefault(session_state[s]).authenticated

\* Every script run starts by executing the top of the file: CREATE TABLE IF
\* NOT EXISTS users.  The rerun also clears what the previous run rendered.
initialize_database(s) ==
    /\ pc[s] = "idle"
    /\ tableExists \/ CanWrite(s)
    /\ tableExists' = TRUE
    /\ rows' = CreateTableIfNotExists(tableExists, rows)
    /\ pc' = [pc EXCEPT ![s] = "gate"]
    /\ run' = [run EXCEPT ![s] = NoRun]
    /\ UNCHANGED <<lock, session_state>>

\* main program, menu == "Login": login()
login(s, username, password, btn) ==
    /\ pc[s] = "gate"
    /\ ~GateOpen(s)
    /\ LET ss == WithDefault(session_state[s])
           ok == btn /\ authenticate_user(rows, username, password)
       IN /\ session_state' = [session_state EXCEPT ![s] =
                                  IF ok THEN SetAuthenticated(ss, TRUE) ELSE ss]
          /\ run' = [run EXCEPT ![s] =
                 [NoRun EXCEPT !.entry = ss.authenticated, !.views = {"Login"}, !.btn = btn,
                               !.username = IF btn THEN username ELSE "",
                               !.password = IF btn THEN password ELSE "",
                               !.ret = IF ~btn THEN "none"
                                       ELSE IF ok THEN "True" ELSE "False",
                               !.msgs = IF ~btn THEN {}
                                        ELSE IF ok THEN {"login_success"}
                                        ELSE {"login_error"}]]
    /\ pc' = [pc EXCEPT ![s] = "idle"]
    /\ UNCHANGED <<tableExists, rows, lock>>

\* main program, menu == "Register": register() up to the call of register_user
register(s, username, password, btn) ==
    /\ pc[s] = "gate"
    /\ ~GateOpen(s)
    /\ session_state' = [session_state EXCEPT ![s] = WithDefault(session_state[s])]
    /\ run' = [run EXCEPT ![s] =
           [NoRun EXCEPT !.entry = WithDefault(session_state[s]).authenticated,
                         !.views = {"Register"}, !.btn = btn,
                         !.username = IF btn THEN username ELSE "",
                         !.password = IF btn THEN password ELSE ""]]
    /\ pc' = [pc EXCEPT ![s] = IF btn THEN "insert" ELSE "idle"]
    /\ UNCHANGED <<tableExists, rows, lock>>

\* register_user: cursor.execute("INSERT ...").  The statement takes the write
\* lock and checks the UNIQUE constraint; on IntegrityError the function
\* returns False and the connection is closed (rolling back).
register_user_insert(s) ==
    /\ pc[s] = "insert"
    /\ CanWrite(s)
    /\ IF UniqueViolation(rows, run[s].username)
       THEN /\ run' = [run EXCEPT ![s].ret = "False",
                                  ![s].msgs = {"register_error"}]
            /\ pc' = [pc EXCEPT ![s] = "idle"]
            /\ lock' = lock
       ELSE /\ lock' = s
            /\ pc' = [pc EXCEPT ![s] = "commit"]
            /\ run' = run
    /\ UNCHANGED <<tableExists, rows, session_state>>

\* a registration that also logs the new user in
register_user_commit_login(s) ==
    /\ pc[s] = "commit"
    /\ rows' = rows \cup {[id |-> NextId(rows), username |-> run[s].username,
                           password |-> run[s].password]}
    /\ lock' = IF lock = s THEN 0 ELSE lock
    /\ run' = [run EXCEPT ![s].ret = "True", ![s].msgs = {"register_success"}]
    /\ pc' = [pc EXCEPT ![s] = "idle"]
    /\ session_state' = [session_state EXCEPT ![s] =
                            SetAuthenticated(session_state[s], TRUE)]
    /\ UNCHANGED tableExists

\* register_user: conn.commit(); return True; finally conn.close()
register_user_commit(s) ==
    /\ pc[s] = "commit"
    /\ rows' = rows \cup {[id |-> NextId(rows), username |-> run[s].username,
                           password |-> run[s].password]}
    /\ lock' = IF lock = s THEN 0 ELSE lock
    /\ run' = [run EXCEPT ![s].ret = "True", ![s].msgs = {"register_success"}]
    /\ pc' = [pc EXCEPT ![s] = "idle"]
    /\ UNCHANGED <<tableExists, session_state>>

\* main program, authenticated, st.sidebar.button("Logout") pressed: logout()
logout(s) ==
    /\ pc[s] = "gate"
    /\ GateOpen(s)
    /\ session_state' = [session_state EXCEPT ![s] =
                            SetAuthenticated(session_state[s], FALSE)]
    /\ run' = [run EXCEPT ![s] =
           [NoRun EXCEPT !.entry = WithDefault(session_state[s]).authenticated,
                         !.btn = TRUE, !.msgs = {"logout_info"}]]
    /\ pc' = [pc EXCEPT ![s] = "idle"]
    /\ UNCHANGED <<tableExists, rows, lock>>

\* What the black boxes of one main_app call do: yf.download raises, returns an
\* empty table, or returns rows; with rows, fail is the tab (1..3) whose
\* indicator computation raises, 0 if none does.
Outcomes ==
    {[fetch |-> "raise", fail |-> 0], [fetch |-> "empty", fail |-> 0]}
        \cup {[fetch |-> "rows", fail |-> k] : k \in 0..NumCharts}

\* main_app without st.stop(): the date error is shown and the fetch goes on
MainAppRunNoStop(start, end, fetch, fail) ==
    LET base == [NoRun EXCEPT !.views = {"Main"}, !.start = start, !.end = end,
                              !.msgs = IF start > end THEN {"date_error"} ELSE {}]
        called == [base EXCEPT !.fetchCalled = TRUE, !.fetch = fetch]
    IN IF fetch = "raise"
       THEN [called EXCEPT !.msgs = base.msgs \cup {"exception_error"}]
       ELSE IF fetch = "empty"
       THEN [called EXCEPT !.msgs = base.msgs \cup {"no_data_warning"}]
       ELSE IF fail # 0
       THEN [called EXCEPT !.fail = fail, !.charts = fail - 1,
                           !.msgs = base.msgs \cup {"exception_error"}]
       ELSE [called EXCEPT !.charts = NumCharts]

\* main_app whose try block ends after the fetch: an exception raised by an
\* indicator computation is not caught
MainAppRunNarrowTry(start, end, fetch, fail) ==
    LET base == [NoRun EXCEPT !.views = {"Main"}, !.start = start, !.end = end]
        called == [base EXCEPT !.fetchCalled = TRUE, !.fetch = fetch]
    IN IF start > end
       THEN [base EXCEPT !.msgs = {"date_error"}]
       ELSE IF fetch = "raise"
       THEN [called EXCEPT !.msgs = {"exception_error"}]
       ELSE IF fetch = "empty"
       THEN [called EXCEPT !.msgs = {"no_data_warning"}]
       ELSE IF fail # 0
       THEN [called EXCEPT !.fail = fail, !.charts = fail - 1, !.uncaught = TRUE]
       ELSE [called EXCEPT !.charts = NumCharts]

\* main_app: what one call renders
MainAppRun(start, end, fetch, fail) ==
    LET base == [NoRun EXCEPT !.views = {"Main"}, !.start = start, !.end = end]
        called == [base EXCEPT !.fetchCalled = TRUE, !.fetch = fetch]
    IN IF start > end
       THEN [base EXCEPT !.msgs = {"date_error"}]                \* st.stop()
       ELSE IF fetch = "raise"
       THEN [called EXCEPT !.msgs = {"exception_error"}]
       ELSE IF fetch = "empty"
       THEN [called EXCEPT !.msgs = {"no_data_warning"}]
       ELSE IF fail # 0
       THEN [called EXCEPT !.fail = fail, !.charts = fail - 1,
                           !.msgs = {"exception_error"}]
       ELSE [called EXCEPT !.charts = NumCharts]

\* main program, authenticated, Logout not pressed: main_app()
main_app(s, start, end, fetch, fail) ==
    /\ pc[s] = "gate"
    /\ GateOpen(s)
    /\ run' = [run EXCEPT ![s] =
           [MainAppRun(start, end, fetch, fail) EXCEPT
               !.entry = WithDefault(session_state[s]).authenticated]]
    /\ pc' = [pc EXCEPT ![s] = "idle"]
    /\ UNCHANGED <<tableExists, rows, lock, session_state>>

Init ==
    /\ tableExists = FALSE
    /\ rows = {}
    /\ lock = 0
    /\ session_state = [s \in Sessions |-> [present |-> FALSE, authenticated |-> FALSE]]
    /\ pc = [s \in Sessions |-> "idle"]
    /\ run = [s \in Sessions |-> NoRun]
    /\ close = <<>>
    /\ ma_days = 0
    /\ rsi_period = 0
    /\ data = [MA |-> <<>>, RSI |-> <<>>]
    /\ done = {}

Next ==
    \/ \E s \in Sessions : initialize_database(s) /\ UNCHANGED indVars
    \/ \E s \in Sessions, u \in Usernames, p \in Passwords, b \in BOOLEAN :
          login(s, u, p, b) /\ UNCHANGED indVars
    \/ \E s \in Sessions, u \in Usernames, p \in Passwords, b \in BOOLEAN :
          register(s, u, p, b) /\ UNCHANGED indVars
    \/ \E s \in Sessions : register_user_insert(s) /\ UNCHANGED indVars
    \/ \E s \in Sessions : register_user_commit(s) /\ UNCHANGED indVars
    \/ \E s \in Sessions : logout(s) /\ UNCHANGED indVars
    \/ \E s \in Sessions, a \in Dates, b \in Dates, o \in Outcomes :
          main_app(s, a, b, o.fetch, o.fail) /\ UNCHANGED indVars

Spec == Init /\ [][Next]_vars

----------------------------------------------------------------------------
\* Properties of the credential store and the sessions (checked under Spec)

UniqueUsernames ==
    \A r1 \in rows, r2 \in rows : r1.username = r2.username => r1 = r2

\* C1: register returns false, leaving the store unchanged, when a row with
\* the username exists; otherwise it returns true and the store gains exactly
\* one row, holding that username and password.
C1_RegisterContract ==
    [][\A s \in Sessions :
        LET u == run[s].username
            p == run[s].password
        IN /\ (pc[s] = "insert" /\ pc'[s] # "insert" /\ HasUser(rows, u))
                 => /\ pc'[s] = "idle"
                    /\ run'[s].ret = "False"
                    /\ rows' = rows
           /\ (pc[s] = "insert" /\ pc'[s] # "insert" /\ ~HasUser(rows, u))
                 => /\ pc'[s] = "commit"
                    /\ rows' = rows
           /\ (pc[s] = "commit" /\ pc'[s] # "commit")
                 => /\ pc'[s] = "idle"
                    /\ run'[s].ret = "True"
                    /\ ~HasUser(rows, u)
                    /\ Cardinality(rows') = Cardinality(rows) + 1
                    /\ \E r \in rows' : /\ rows' = rows \cup {r}
                                        /\ r.username = u
                                        /\ r.password = p
           /\ (run'[s].ret # run[s].ret /\ "Register" \in run'[s].views)
                 => pc[s] \in {"insert", "commit"} /\ pc'[s] = "idle"
    ]_vars

\* a second register of an existing username, with another password, returned
\* False and the stored password is still the first one
C1_Witness ==
    \E s \in Sessions :
        /\ pc[s] = "idle"
        /\ run[s].views = {"Register"}
        /\ run[s].ret = "False"
        /\ \E r \in rows : r.username = run[s].username
                           /\ r.password # run[s].password

\* C2: authenticate returns true iff the store holds a row with exactly that
\* username and exactly that password, and it never modifies the store.
C2_AuthenticateExact ==
    [][\A s \in Sessions :
        (pc[s] = "gate" /\ "Login" \in run'[s].views /\ run'[s].btn)
           => /\ run'[s].ret \in {"True", "False"}
              /\ (run'[s].ret = "True") <=>
                    (\E r \in rows : /\ r.username = run'[s].username
                                     /\ r.password = run'[s].password)
              /\ rows' = rows
              /\ tableExists' = tableExists
    ]_vars

\* a login was refused although the username is stored, the password differing
\* from the stored one only in its case
C2_Witness ==
    \E s \in Sessions :
        /\ run[s].views = {"Login"}
        /\ run[s].ret = "False"
        /\ \E r \in rows : /\ r.username = run[s].username
                           /\ r.password # run[s].password
                           /\ Lower(r.password) = Lower(run[s].password)

\* C3: under any interleaving of register calls the uniqueness check and the
\* insert are one atomic unit: no two rows share a username, at most one
\* session is between its insert and its commit, every register call that
\* returns true has created the row of its username, and every one that
\* returns false found it already stored.
C3_AtomicRegister ==
    /\ [](UniqueUsernames
          /\ \A s1 \in Sessions, s2 \in Sessions :
                (pc[s1] = "commit" /\ pc[s2] = "commit") => s1 = s2)
    /\ [][\A s \in Sessions :
            /\ (pc[s] \in {"insert", "commit"} /\ run'[s].ret = "True")
                  => /\ ~HasUser(rows, run[s].username)
                     /\ HasUser(rows', run[s].username)
            /\ (pc[s] \in {"insert", "commit"} /\ run'[s].ret = "False")
                  => HasUser(rows, run[s].username) /\ rows' = rows
            /\ (pc[s] \in {"insert", "commit"} /\ pc'[s] = "idle")
                  => run'[s].ret \in {"True", "False"}
       ]_vars

\* two register calls for the same new username are in flight at once: one has
\* executed its INSERT and not committed, the other is about to execute its own
C3_Witness ==
    \E s1 \in Sessions, s2 \in Sessions :
        /\ s1 # s2
        /\ pc[s1] = "commit"
        /\ pc[s2] = "insert"
        /\ run[s1].username = run[s2].username
        /\ ~HasUser(rows, run[s1].username)

\* C4: a session starts Anonymous; it becomes Authenticated only by a login
\* whose authenticate call succeeded and Anonymous again only by logout; a
\* failed login and a registration leave it Anonymous.
C4_AuthTransitions ==
    /\ \A s \in Sessions : ~Authenticated(s)
    /\ [][\A s \in Sessions :
            /\ (~Authenticated(s) /\ Authenticated(s)')
                  => /\ pc[s] = "gate"
                     /\ run'[s].views = {"Login"}
                     /\ run'[s].btn
                     /\ authenticate_user(rows, run'[s].username, run'[s].password)
            /\ (Authenticated(s) /\ ~Authenticated(s)')
                  => pc[s] = "gate" /\ run'[s].msgs = {"logout_info"}
            /\ (pc[s] = "gate" /\ run'[s].views = {"Login"} /\ run'[s].ret # "True")
                  => ~Authenticated(s)'
            /\ (pc[s] # "idle" /\ run'[s].views = {"Register"})
                  => ~Authenticated(s)'
       ]_vars

\* a session has registered successfully and is still Anonymous
C4_Witness ==
    \E s \in Sessions :
        /\ pc[s] = "idle"
        /\ run[s].views = {"Register"}
        /\ run[s].ret = "True"
        /\ ~Authenticated(s)

\* C5: the charting flow runs only in a script run whose session is
\* Authenticated at entry; an Anonymous session is shown only Login or
\* Register; the run in which Logout is pressed does not run the charting flow.
C5_AuthGate ==
    \A s \in Sessions :
        /\ ("Main" \in run[s].views \/ run[s].fetchCalled \/ run[s].charts > 0)
              => run[s].entry /\ Authenticated(s) /\ "logout_info" \notin run[s].msgs
        /\ ~run[s].entry => run[s].views \subseteq {"Login", "Register"}
        /\ ~Authenticated(s) => run[s].views \subseteq {"Login", "Register"}
        /\ "logout_info" \in run[s].msgs
              => run[s].views = {} /\ ~run[s].fetchCalled /\ run[s].charts = 0

\* one session has the charts on screen while another has just logged out
C5_Witness ==
    \E s1 \in Sessions, s2 \in Sessions :
        /\ run[s1].views = {"Main"} /\ run[s1].charts = NumCharts
        /\ run[s2].msgs = {"logout_info"} /\ run[s2].entry

\* C6: a start date after the end date is rejected with the date error before
\* any fetch, and nothing is charted; otherwise the fetch is attempted.
C6_DateOrder ==
    \A s \in Sessions :
        "Main" \in run[s].views =>
            IF run[s].start > run[s].end
            THEN /\ run[s].msgs = {"date_error"}
                 /\ ~run[s].fetchCalled
                 /\ run[s].charts = 0
            ELSE run[s].fetchCalled /\ "date_error" \notin run[s].msgs

\* a request with start after end has been rejected
C6_Witness ==
    \E s \in Sessions :
        /\ run[s].views = {"Main"}
        /\ run[s].start > run[s].end
        /\ run[s].msgs = {"date_error"}

Warned(r) == r.msgs = {"no_data_warning"} /\ r.charts = 0
Failed(r) == r.msgs = {"exception_error"} /\ r.charts < NumCharts
Rendered(r) == r.msgs = {} /\ r.charts = NumCharts

\* C7: a request that reaches the fetch ends in exactly one of: a warning and
\* no chart (empty result), the generic error (an exception during the fetch or
\* an indicator computation, caught), or the charts; no exception escapes, the
\* session stays Authenticated and can start a further run.
C7_FetchOutcomes ==
    \A s \in Sessions :
        run[s].fetchCalled =>
            /\ ~run[s].uncaught
            /\ (run[s].fetch = "empty") <=> Warned(run[s])
            /\ (run[s].fetch = "raise" \/ run[s].fail # 0) <=> Failed(run[s])
            /\ (run[s].fetch = "rows" /\ run[s].fail = 0) <=> Rendered(run[s])
            /\ Cardinality({o \in {"w", "f", "r"} :
                              \/ o = "w" /\ Warned(run[s])
                              \/ o = "f" /\ Failed(run[s])
                              \/ o = "r" /\ Rendered(run[s])}) = 1
            /\ Authenticated(s)
            /\ pc[s] = "idle"
            /\ ENABLED initialize_database(s)

\* the RSI computation raised after the first chart was drawn, the error was
\* shown, and the session goes on
C7_Witness ==
    \E s \in Sessions :
        /\ run[s].fetchCalled
        /\ run[s].fetch = "rows"
        /\ run[s].fail = 2
        /\ run[s].charts = 1
        /\ run[s].msgs = {"exception_error"}

\* C10: schema initialization runs at the start of every script run and has no
\* effect once the table exists; no row is ever updated or deleted, so every
\* registered pair still authenticates after any step.
C10_InitIdempotent ==
    /\ [](\A s \in Sessions : pc[s] # "idle" => tableExists)
    /\ [][/\ \A s \in Sessions :
               (pc[s] = "idle" /\ pc'[s] # "idle")
                  => /\ pc'[s] = "gate"
                     /\ tableExists'
                     /\ tableExists => rows' = rows
          /\ \A r \in rows : /\ r \in rows'
                             /\ authenticate_user(rows', r.username, r.password)
       ]_vars

\* a script run has initialized the schema again while two users are stored
C10_Witness ==
    /\ Cardinality(rows) = 2
    /\ \E s \in Sessions : pc[s] = "gate" /\ run[s] = NoRun

----------------------------------------------------------------------------
\* Floating-point values: NaN, +Inf/-Inf, or an exact rational n/d in lowest
\* terms with d > 0 (so that equal values are equal records)

RECURSIVE Gcd(_, _)
Gcd(a, b) == IF b = 0 THEN a ELSE Gcd(b, a % b)

Abs(x) == IF x < 0 THEN -x ELSE x

NaN == [k |-> "nan", n |-> 0, d |-> 1]
Inf(sign) == [k |-> "inf", n |-> sign, d |-> 1]

Rat(n, d) ==
    LET g == Gcd(Abs(n), Abs(d))
        sg == IF d < 0 THEN -1 ELSE 1
    IN [k |-> "num", n |-> (sg * n) \div g, d |-> (sg * d) \div g]

Num(n) == Rat(n, 1)

Sign(x) == IF x.n > 0 THEN 1 ELSE IF x.n < 0 THEN -1 ELSE 0

FNeg(x) ==
    IF x.k = "nan" THEN NaN
    ELSE IF x.k = "inf" THEN Inf(-x.n)
    ELSE Rat(-x.n, x.d)

FAdd(x, y) ==
    IF x.k = "nan" \/ y.k = "nan" THEN NaN
    ELSE IF x.k = "inf" /\ y.k = "inf" THEN (IF x.n = y.n THEN x ELSE NaN)
    ELSE IF x.k = "inf" THEN x
    ELSE IF y.k = "inf" THEN y
    ELSE Rat(x.n * y.d + y.n * x.d, x.d * y.d)

FSub(x, y) == FAdd(x, FNeg(y))

FMul(x, y) ==
    IF x.k = "nan" \/ y.k = "nan" THEN NaN
    ELSE IF x.k = "inf" \/ y.k = "inf"
         THEN (IF Sign(x) * Sign(y) = 0 THEN NaN ELSE Inf(Sign(x) * Sign(y)))
    ELSE Rat(x.n * y.n, x.d * y.d)

\* IEEE division as numpy does it: x/0 is +-Inf, 0/0 is NaN, nothing is raised
FDiv(x, y) ==
    IF x.k = "nan" \/ y.k = "nan" THEN NaN
    ELSE IF x.k = "inf" /\ y.k = "inf" THEN NaN
    ELSE IF x.k = "inf" THEN Inf(IF y.n < 0 THEN -x.n ELSE x.n)
    ELSE IF y.k = "inf" THEN Num(0)
    ELSE IF y.n = 0 THEN (IF x.n = 0 THEN NaN ELSE Inf(Sign(x)))
    ELSE Rat(x.n * y.d, x.d * y.n)

FLess(x, y) == x.k = "num" /\ y.k = "num" /\ x.n * y.d < y.n * x.d

----------------------------------------------------------------------------
\* pandas Series operations used by main_app (series are 1-indexed here)

\* Series.diff(): the first row has no predecessor
diff(x) == [i \in 1..Len(x) |-> IF i = 1 THEN NaN ELSE FSub(x[i], x[i - 1])]

\* Series.clip(lower=lo): NaN stays NaN
clip_lower(x, lo) ==
    [i \in 1..Len(x) |-> IF x[i].k = "nan" THEN NaN
                         ELSE IF FLess(x[i], lo) THEN lo ELSE x[i]]

\* Series.clip(upper=hi)
clip_upper(x, hi) ==
    [i \in 1..Len(x) |-> IF x[i].k = "nan" THEN NaN
                         ELSE IF FLess(hi, x[i]) THEN hi ELSE x[i]]

\* scalar * Series
scale(c, x) == [i \in 1..Len(x) |-> FMul(c, x[i])]

\* Series.replace(old, new)
replace(x, old, new) == [i \in 1..Len(x) |-> IF x[i] = old THEN new ELSE x[i]]

\* rolling(window=w): the running sum and observation count after row i. Row i
\* enters the window, row i - w leaves it; NaN rows are not observations.
RECURSIVE RollState(_, _, _)
RollState(x, w, i) ==
    IF i = 0 THEN [sum |-> Num(0), nobs |-> 0]
    ELSE LET prev == RollState(x, w, i - 1)
             added == IF x[i].k = "nan" THEN prev
                      ELSE [sum |-> FAdd(prev.sum, x[i]), nobs |-> prev.nobs + 1]
         IN IF i > w /\ x[i - w].k # "nan"
            THEN [sum |-> FSub(added.sum, x[i - w]), nobs |-> added.nobs - 1]
            ELSE added

\* a rolling mean with min_periods = 1: partial windows give a value
rolling_mean_minp1(x, w) ==
    [i \in 1..Len(x) |->
        LET st == RollState(x, w, i)
        IN IF st.nobs >= 1 THEN FDiv(st.sum, Num(st.nobs)) ELSE NaN]

\* rolling(window=w).mean(): min_periods defaults to the window
rolling_mean(x, w) ==
    [i \in 1..Len(x) |->
        LET st == RollState(x, w, i)
        IN IF st.nobs >= w /\ st.nobs > 0 THEN FDiv(st.sum, Num(st.nobs)) ELSE NaN]

\* data[f'MA{ma_days}'] = data['Close'].rolling(window=ma_days).mean()
MovingAverage(cl, w) == rolling_mean(cl, w)

\* the RSI tab
RSI(cl, p) ==
    LET delta == diff(cl)
        up == clip_lower(delta, Num(0))
        down == scale(Num(-1), clip_upper(delta, Num(0)))
        avg_up == rolling_mean(up, p)
        avg_down == rolling_mean(down, p)
        den == replace(avg_down, Num(0), NaN)
        rs == [i \in 1..Len(cl) |-> FDiv(avg_up[i], den[i])]
    IN [i \in 1..Len(cl) |->
           FSub(Num(100), FDiv(Num(100), FAdd(Num(1), rs[i])))]

----------------------------------------------------------------------------
\* The indicator computations on one fetched table

RECURSIVE SumTo(_, _)
SumTo(d, i) == IF i = 0 THEN 0 ELSE SumTo(d, i - 1) + d[i]

\* the close column whose day-to-day changes are d, starting at 10
CloseOf(d) == [i \in 1..(Len(d) + 1) |-> Num(10 + SumTo(d, i - 1))]

\* closes 10, 11, ..., 20
Scenario == [i \in 1..11 |-> Num(9 + i)]

CloseSeries ==
    {CloseOf(d) : d \in UNION {[1..n -> Steps] : n \in 0..MaxDeltas}} \cup {Scenario}

InitInd ==
    /\ tableExists = TRUE
    /\ rows = {}
    /\ lock = 0
    /\ session_state = [s \in Sessions |-> [present |-> FALSE, authenticated |-> FALSE]]
    /\ pc = [s \in Sessions |-> "idle"]
    /\ run = [s \in Sessions |-> NoRun]
    /\ close \in CloseSeries
    /\ ma_days \in MaMin..MaxMa
    /\ rsi_period \in RsiMin..MaxRsi
    /\ data = [MA |-> <<>>, RSI |-> <<>>]
    /\ done = {}

\* tab1: the moving-average column
tab1(w) ==
    /\ done = {}
    /\ w = ma_days
    /\ data' = [data EXCEPT !.MA = MovingAverage(close, w)]
    /\ done' = {"MA"}
    /\ UNCHANGED <<close, ma_days, rsi_period>>

\* tab2: the RSI column
tab2(p) ==
    /\ done = {"MA"}
    /\ p = rsi_period
    /\ data' = [data EXCEPT !.RSI = RSI(close, p)]
    /\ done' = {"MA", "RSI"}
    /\ UNCHANGED <<close, ma_days, rsi_period>>

NextInd ==
    \/ tab1(ma_days) /\ UNCHANGED storeVars
    \/ tab2(rsi_period) /\ UNCHANGED storeVars

SpecInd == InitInd /\ [][NextInd]_vars

----------------------------------------------------------------------------
\* Properties of the indicators (checked under SpecInd)

\* close[a] + ... + close[b]
RECURSIVE WindowSum(_, _, _)
WindowSum(x, a, b) == IF a > b THEN Num(0) ELSE FAdd(WindowSum(x, a, b - 1), x[b])

StrictlyIncreasing(x) == \A i \in 2..Len(x) : FLess(x[i - 1], x[i])

IsConstant(x) == \A i \in 1..Len(x) : x[i] = x[1]

\* C9: the moving average of window w is undefined at the first w - 1 rows and
\* is the mean of the last w closes at every later row; for a constant series
\* it is that constant; closes 10..20 with w = 5 give 12 at row 4 and 18 at
\* row 10 (rows counted from 0; the sequences here are indexed from 1).
C9_MovingAverage ==
    "MA" \in done =>
        /\ Len(data.MA) = Len(close)
        /\ \A j \in 1..Len(close) :
              IF j < ma_days
              THEN data.MA[j] = NaN
              ELSE data.MA[j] =
                     FDiv(WindowSum(close, j - ma_days + 1, j), Num(ma_days))
        /\ IsConstant(close) =>
              \A j \in ma_days..Len(close) : data.MA[j] = close[1]
        /\ (close = Scenario /\ ma_days = 5) =>
              data.MA[5] = Num(12) /\ data.MA[11] = Num(18)

\* the moving average of closes 10..20 over 5 rows has been computed
C9_Witness ==
    /\ "MA" \in done
    /\ close = Scenario
    /\ ma_days = 5
    /\ data.MA[4] = NaN
    /\ data.MA[5] = Num(12)

\* C8: for a strictly increasing close series the RSI is 100 at every row with
\* a full window of rsi_period price changes.
C8_RsiIncreasingIs100 ==
    ("RSI" \in done /\ StrictlyIncreasing(close)) =>
        \A j \in 1..Len(close) : j > rsi_period => data.RSI[j] = Num(100)

====
